---- MODULE Spec2Model ----
(***************************************************************************)
(* Model of package imptree (src/imptree/imptree.go): Builder.Build walks  *)
(* the import graph handed back by the package loader, materialises one    *)
(* Node per import path in the builder's map, links Children and Parents,  *)
(* and then looks for the root by climbing Parents[0].                     *)
(*                                                                         *)
(* Nodes live in a heap: a Node is the index at which it was allocated;    *)
(* PkgPath, Children and Parents are its fields, and nodes is the map      *)
(* Builder.nodes from import path to Node.  Import paths are numbered;     *)
(* 0 stands for nil.                                                       *)
(*                                                                         *)
(* matchCalls counts the calls of the MatchPkg predicate per package       *)
(* during the current Build, before is the builder's map and heap as they  *)
(* were when the current Build was called, second tells that Build has     *)
(* been called again on the same Builder, removed is the set of nodes      *)
(* removeNodeRecursively has been called on, and again tells that the last *)
(* such call was on a node of that set (both kept by RemoveLogged only).   *)
(*                                                                         *)
(* removeNodeRecursively is called by imptree_test.go but its source is    *)
(* not part of src/; it is modelled from section 4.2 of spec.md.           *)
(***************************************************************************)
EXTENDS Integers, Sequences, FiniteSets, TLC

VARIABLES pc, load, pkgs, nodes, PkgPath, Children, Parents, stack, cur, result, target,
          matchCalls, removed, again, before, second

vars == <<pc, load, pkgs, nodes, PkgPath, Children, Parents, stack, cur, result, target,
          matchCalls, removed, again, before, second>>

\* ---------------------------------------------------------------- bounds
\* Largest number of packages in a generated import graph.
NUnits == 4
\* Largest number of import entries in a generated import graph.
MaxEdges == 4
\* Largest number of packages in an import graph whose removals are
\* recorded.
NRemoval == 3
\* Largest number of packages, and of import entries, in an import graph
\* given to a Builder that is used for two Builds.
NReuse == 2
MaxReuseEdges == 2

Nil == 0

\* ------------------------------------------------- the loader's result
RECURSIVE UpTo(_, _)
\* The sets of at most MaxEdges of the first m candidate import edges among
\* n packages; edge number i goes from package ((i - 1) \div n) + 1 to
\* package ((i - 1) % n) + 1.
UpTo(n, m) ==
    IF m = 0
    THEN {{}}
    ELSE LET prev == UpTo(n, m - 1)
             e == <<((m - 1) \div n) + 1, ((m - 1) % n) + 1>>
         IN  prev \cup {T \cup {e} : T \in {X \in prev : Cardinality(X) < MaxEdges}}

RECURSIVE Closure(_, _)
\* The units reached from the set S along the edges E.
Closure(E, S) ==
    LET N == S \cup {e[2] : e \in {d \in E : d[1] \in S}}
    IN  IF N = S THEN S ELSE Closure(E, N)

\* packages.Package values: unit u has PkgPath path[u], Imports imports[u]
\* (a set of <<import path, unit>> entries, one per key) and the verdict
\* match[u] of the caller's MatchPkg predicate.  Unit 1 is pkgs[0].
MkGraph(n, E, M) ==
    [n       |-> n,
     path    |-> [u \in 1..n |-> u],
     imports |-> [u \in 1..n |-> {<<e[2], e[2]>> : e \in {d \in E : d[1] = u}}],
     match   |-> [u \in 1..n |-> u \in M]]

\* The import relations over n packages, cycles and self-imports included,
\* in which every package is reachable from pkgs[0]: a package that is not
\* is never seen by Build.
EdgeSets(n) ==
    {E \in UpTo(n, n * n) : Closure(E, {1}) = 1..n}

\* The happy-path input of TestBuilder_Build: paths a=1, a/a=2, c=3, d=4,
\* e=5; the two "a/a" literals are distinct Package values (units 2 and 6).
TestGraph ==
    [n       |-> 6,
     path    |-> <<1, 2, 3, 4, 5, 2>>,
     imports |-> <<{<<2, 2>>, <<3, 3>>}, {}, {<<4, 4>>, <<2, 6>>, <<5, 5>>}, {}, {}, {}>>,
     match   |-> <<TRUE, TRUE, TRUE, TRUE, FALSE, TRUE>>]

NoGraph == [n |-> 0, path |-> <<>>, imports |-> <<>>, match |-> <<>>]

\* Outcomes of b.loadPkgs and b.printLoadPkgsErrors: the loader's error,
\* the reported error count and len(pkgs).
LoadOutcomes == [err : BOOLEAN, errCount : 0..1, len : 0..2]

\* ------------------------------------------------------------- helpers
\* A predicate that accepts every package.
matchPkgAny(g, u) == TRUE

\* The caller's MatchPkg predicate applied to a package.
matchPkg(g, u) == g.match[u]

\* containsNode that never finds the node.
containsNodeNever(slc, node) == FALSE

containsNode(slc, node) ==
    IF Len(slc) = 0 \/ node = Nil
    THEN FALSE
    ELSE \E i \in 1..Len(slc) : slc[i] = node

\* The builder's map and the heap of Nodes, as one value.
Heap == [nodes |-> nodes, PkgPath |-> PkgPath, Children |-> Children, Parents |-> Parents]

\* GetOrCreate without the lookup: a new Node every time.
GetOrCreateAlways(H, k) ==
    [nodes    |-> [x \in DOMAIN H.nodes \cup {k} |->
                      IF x = k THEN Len(H.PkgPath) + 1 ELSE H.nodes[x]],
     PkgPath  |-> Append(H.PkgPath, k),
     Children |-> Append(H.Children, <<>>),
     Parents  |-> Append(H.Parents, <<>>)]

\* Lines 100-106 and 113-119: if n, ok := b.nodes[k]; ok { use n } else
\* { n = &Node{PkgPath: k}; b.nodes[k] = n }.  The Node is then H.nodes[k].
GetOrCreate(H, k) ==
    IF k \in DOMAIN H.nodes
    THEN H
    ELSE [nodes    |-> H.nodes @@ (k :> Len(H.PkgPath) + 1),
          PkgPath  |-> Append(H.PkgPath, k),
          Children |-> Append(H.Children, <<>>),
          Parents  |-> Append(H.Parents, <<>>)]

\* The predicate has been called k more times on package u.
Called(c, u, k) == [c EXCEPT ![u] = @ + k]

Frame(u, node, g) == [pkg |-> u, node |-> node, todo |-> g.imports[u]]

Top == stack[Len(stack)]

Pop(s) == SubSeq(s, 1, Len(s) - 1)

\* AddParent without the append.
AddParentDropped(H, childNode, node) == H

\* Lines 121-123: childNode.Parents = append(childNode.Parents, node)
\* unless node is already there.
AddParent(H, childNode, node) ==
    IF containsNode(H.Parents[childNode], node)
    THEN H
    ELSE [H EXCEPT !.Parents[childNode] = Append(@, node)]

\* AddChild that never appends.
AddChildDropped(H, node, childNode) == H

\* Lines 125-127: node.Children = append(node.Children, childNode) unless
\* childNode is already there.
AddChild(H, node, childNode) ==
    IF containsNode(H.Children[node], childNode)
    THEN H
    ELSE [H EXCEPT !.Children[node] = Append(@, childNode)]

\* Entry of buildTree(pkg, matchPkg), lines 95-106, on heap H and call
\* stack S: return at once when the predicate rejects pkg, otherwise look
\* the node up or create it under pkg.PkgPath and start the loop over
\* pkg.Imports in a new frame.  A call on a package whose walk is still
\* under way (it is on the call stack S) will reach the same call again:
\* that recursion never ends, and the goroutine stack overflows.
CallBuildTree(g, u, H, S) ==
    IF ~matchPkg(g, u)
    THEN [heap |-> H, stack |-> S, overflow |-> FALSE]
    ELSE IF \E i \in DOMAIN S : S[i].pkg = u
    THEN [heap |-> H, stack |-> S, overflow |-> TRUE]
    ELSE LET H1 == GetOrCreate(H, g.path[u]) IN
         [heap     |-> H1,
          stack    |-> Append(S, Frame(u, H1.nodes[g.path[u]], g)),
          overflow |-> FALSE]

\* ------------------------------------------------- removeNodeRecursively
\* slc without every entry equal to node, the other entries in order.
\* Without that drops the last entry, whichever node it is.
WithoutLast(slc, node) ==
    IF slc = <<>> THEN slc ELSE SubSeq(slc, 1, Len(slc) - 1)

Without(slc, node) == SelectSeq(slc, LAMBDA x : x # node)

\* DetachFromParents that forgets the parents' Children.
DetachKeepingLinks(H, t) == [H EXCEPT !.Parents[t] = <<>>]

\* Step 1: take targetNode out of the Children of each of its parents and
\* empty targetNode.Parents.
DetachFromParents(H, t) ==
    [H EXCEPT !.Children = [n \in DOMAIN H.Children |->
                                IF containsNode(H.Parents[t], n)
                                THEN Without(H.Children[n], t)
                                ELSE H.Children[n]],
              !.Parents[t] = <<>>]

RECURSIVE RemoveNode(_, _), Cascade(_, _, _)

\* Cascade that never goes deeper than the children of t.
CascadeOneLevel(H, t, i) ==
    [H EXCEPT !.Parents = [c \in DOMAIN H.Parents |->
                              IF containsNode(H.Children[t], c)
                              THEN Without(H.Parents[c], t)
                              ELSE H.Parents[c]]]

\* Step 3 for the children kids[i..] of t: take t out of the child's Parents
\* and, when that leaves the child without parents, remove the child too.
Cascade(H, t, i) ==
    LET kids == H.Children[t] IN
    IF i > Len(kids)
    THEN H
    ELSE LET c  == kids[i]
             H1 == [H EXCEPT !.Parents[c] = Without(@, t)]
             H2 == IF H1.Parents[c] = <<>> THEN RemoveNode(H1, c) ELSE H1
         IN  Cascade(H2, t, i + 1)

\* removeNodeRecursively(root, targetNode) on the heap H.
RemoveNode(H, t) == Cascade(DetachFromParents(H, t), t, 1)

Init ==
    /\ pc = "start"
    /\ load = [err |-> FALSE, errCount |-> 0, len |-> 0]
    /\ pkgs = NoGraph
    /\ nodes = <<>>
    /\ PkgPath = <<>>
    /\ Children = <<>>
    /\ Parents = <<>>
    /\ stack = <<>>
    /\ cur = Nil
    /\ result = [node |-> Nil, err |-> FALSE]
    /\ target = Nil
    /\ matchCalls = <<>>
    /\ removed = {}
    /\ again = FALSE
    /\ before = [nodes |-> <<>>, PkgPath |-> <<>>, Children |-> <<>>, Parents |-> <<>>]
    /\ second = FALSE

SetHeap(H) ==
    /\ nodes' = H.nodes
    /\ PkgPath' = H.PkgPath
    /\ Children' = H.Children
    /\ Parents' = H.Parents

\* BuildLoadFails of a Build that empties the map before it loads.
BuildLoadFailsReset ==
    /\ pc = "start"
    /\ \E o \in LoadOutcomes :
          /\ o.err \/ o.errCount > 0 \/ o.len # 1
          /\ load' = o
    /\ result' = [node |-> Nil, err |-> TRUE]
    /\ pc' = "done"
    /\ nodes' = <<>>
    /\ UNCHANGED <<pkgs, PkgPath, Children, Parents, stack, cur, target>>
    /\ UNCHANGED <<matchCalls, removed, again, before, second>>

\* Build, lines 62-77: the loader fails, or reports errors, or returns a
\* number of packages other than one: return nil and an error.
BuildLoadFails ==
    /\ pc = "start"
    /\ \E o \in LoadOutcomes :
          /\ o.err \/ o.errCount > 0 \/ o.len # 1
          /\ load' = o
    /\ result' = [node |-> Nil, err |-> TRUE]
    /\ pc' = "done"
    /\ UNCHANGED <<pkgs, nodes, PkgPath, Children, Parents, stack, cur, target>>
    /\ UNCHANGED <<matchCalls, removed, again, before, second>>

\* Build, lines 78-81: pkg := pkgs[0]; b.buildTree(pkg, matchPkg), for the
\* loaded import graph g.
StartWalk(g) ==
    LET r == CallBuildTree(g, 1, Heap, stack) IN
    /\ pkgs' = g
    /\ SetHeap(r.heap)
    /\ stack' = r.stack
    /\ pc' = IF r.overflow THEN "overflow" ELSE "walk"
    /\ matchCalls' = Called([u \in 1..g.n |-> 0], 1, 1)

\* Build, lines 62-81: the load succeeds with exactly one package, the root
\* of a generated import graph or of the test's graph, and the walk starts.
BuildLoad ==
    /\ pc = "start"
    /\ \/ \E n \in 1..NUnits : \E E \in EdgeSets(n) : \E M \in SUBSET (1..n) :
             StartWalk(MkGraph(n, E, M))
       \/ StartWalk(TestGraph)
    /\ load' = [err |-> FALSE, errCount |-> 0, len |-> 1]
    /\ UNCHANGED <<cur, result, target, removed, again, before, second>>

\* buildTree, lines 108-111: the next entry of pkg.Imports (the map is
\* ranged over in any order) is rejected by the predicate, called at line
\* 109.
SkipImport ==
    /\ pc = "walk"
    /\ stack # <<>>
    /\ \E imp \in Top.todo :
          /\ ~matchPkg(pkgs, imp[2])
          /\ stack' = [stack EXCEPT ![Len(stack)].todo = @ \ {imp}]
          /\ matchCalls' = Called(matchCalls, imp[2], 1)
    /\ UNCHANGED <<pc, load, pkgs, nodes, PkgPath, Children, Parents, cur, result, target>>
    /\ UNCHANGED <<removed, again, before, second>>

\* buildTree, lines 108-129: the next entry importPath -> childPkg of
\* pkg.Imports is accepted: look the child node up or create it under
\* importPath, add the two links and call buildTree on childPkg.  The
\* predicate is called on childPkg at line 109 and again at line 96.
WalkImport ==
    /\ pc = "walk"
    /\ stack # <<>>
    /\ \E imp \in Top.todo :
          /\ matchPkg(pkgs, imp[2])
          /\ LET node == Top.node
                 H1 == GetOrCreate(Heap, imp[1])
                 childNode == H1.nodes[imp[1]]
                 H2 == AddParent(H1, childNode, node)
                 H3 == AddChild(H2, node, childNode)
                 S1 == [stack EXCEPT ![Len(stack)].todo = @ \ {imp}]
                 r  == CallBuildTree(pkgs, imp[2], H3, S1)
             IN  /\ SetHeap(r.heap)
                 /\ stack' = r.stack
                 /\ pc' = IF r.overflow THEN "overflow" ELSE "walk"
          /\ matchCalls' = Called(matchCalls, imp[2], 2)
    /\ UNCHANGED <<load, pkgs, cur, result, target, removed, again, before, second>>

\* buildTree, line 131: the loop over pkg.Imports is over, the call returns.
Return ==
    /\ pc = "walk"
    /\ stack # <<>>
    /\ Top.todo = {}
    /\ stack' = Pop(stack)
    /\ UNCHANGED <<pc, load, pkgs, nodes, PkgPath, Children, Parents, cur, result, target>>
    /\ UNCHANGED <<matchCalls, removed, again, before, second>>

\* FindRoot without the error for an empty map: nil and no error.
FindRootNoError ==
    /\ pc = "walk"
    /\ stack = <<>>
    /\ IF DOMAIN nodes = {}
       THEN /\ result' = [node |-> Nil, err |-> FALSE]
            /\ pc' = "done"
            /\ cur' = cur
       ELSE /\ \E k \in DOMAIN nodes : cur' = nodes[k]
            /\ pc' = "climb"
            /\ result' = result
    /\ UNCHANGED <<load, pkgs, nodes, PkgPath, Children, Parents, stack, target>>
    /\ UNCHANGED <<matchCalls, removed, again, before, second>>

\* Build, lines 84 and 92: the walk is over; range over b.nodes yields any
\* entry first, and an empty map is the error "could not find tree root
\* node".
FindRoot ==
    /\ pc = "walk"
    /\ stack = <<>>
    /\ IF DOMAIN nodes = {}
       THEN /\ result' = [node |-> Nil, err |-> TRUE]
            /\ pc' = "done"
            /\ cur' = cur
       ELSE /\ \E k \in DOMAIN nodes : cur' = nodes[k]
            /\ pc' = "climb"
            /\ result' = result
    /\ UNCHANGED <<load, pkgs, nodes, PkgPath, Children, Parents, stack, target>>
    /\ UNCHANGED <<matchCalls, removed, again, before, second>>

\* Climb with an if in place of the for: one step up at most.
ClimbOnce ==
    /\ pc = "climb"
    /\ result' = [node |-> IF Parents[cur] # <<>> THEN Parents[cur][1] ELSE cur,
                  err  |-> FALSE]
    /\ pc' = "done"
    /\ cur' = cur
    /\ UNCHANGED <<load, pkgs, nodes, PkgPath, Children, Parents, stack, target>>
    /\ UNCHANGED <<matchCalls, removed, again, before, second>>

\* Build, lines 85-89: climb Parents[0] while Parents is not nil, then
\* return the node reached.
Climb ==
    /\ pc = "climb"
    /\ IF Parents[cur] # <<>>
       THEN /\ cur' = Parents[cur][1]
            /\ UNCHANGED <<pc, result>>
       ELSE /\ result' = [node |-> cur, err |-> FALSE]
            /\ pc' = "done"
            /\ cur' = cur
    /\ UNCHANGED <<load, pkgs, nodes, PkgPath, Children, Parents, stack, target>>
    /\ UNCHANGED <<matchCalls, removed, again, before, second>>

\* The caller, holding the root Build returned, calls
\* removeNodeRecursively(root, t) on a node of the graph.
Remove ==
    /\ pc = "done"
    /\ ~result.err
    /\ \E t \in DOMAIN PkgPath :
          /\ SetHeap(RemoveNode(Heap, t))
          /\ target' = t
    /\ UNCHANGED <<pc, load, pkgs, stack, cur, result>>
    /\ UNCHANGED <<matchCalls, removed, again, before, second>>

Next ==
    \/ BuildLoadFails
    \/ BuildLoad
    \/ SkipImport
    \/ WalkImport
    \/ Return
    \/ FindRoot
    \/ Climb
    \/ Remove

Spec == Init /\ [][Next]_vars

\* ---------------------------------------- removals with their history
\* Build, lines 62-81, as BuildLoad, on the import graphs of at most
\* NRemoval packages.
BuildLoadRemoval ==
    /\ pc = "start"
    /\ \E n \in 1..NRemoval : \E E \in EdgeSets(n) : \E M \in SUBSET (1..n) :
          StartWalk(MkGraph(n, E, M))
    /\ load' = [err |-> FALSE, errCount |-> 0, len |-> 1]
    /\ UNCHANGED <<cur, result, target, removed, again, before, second>>

\* Remove, with the record of the nodes removeNodeRecursively has been
\* called on and of whether this call is on one of them.
RemoveLogged ==
    /\ pc = "done"
    /\ ~result.err
    /\ \E t \in DOMAIN PkgPath :
          /\ SetHeap(RemoveNode(Heap, t))
          /\ target' = t
          /\ removed' = removed \cup {t}
          /\ again' = (t \in removed)
    /\ UNCHANGED <<pc, load, pkgs, stack, cur, result, matchCalls, before, second>>

NextRemoval ==
    \/ BuildLoadFails
    \/ BuildLoadRemoval
    \/ SkipImport
    \/ WalkImport
    \/ Return
    \/ FindRoot
    \/ Climb
    \/ RemoveLogged

SpecRemoval == Init /\ [][NextRemoval]_vars

\* ------------------------------------- a Builder used for a second Build
\* The import graph g with every import path moved up by d: for d > 0 some
\* of its paths are those of g and the others are new.
Renamed(g, d) ==
    [g EXCEPT !.path    = [u \in 1..g.n |-> g.path[u] + d],
              !.imports = [u \in 1..g.n |->
                              {<<imp[1] + d, imp[2]>> : imp \in g.imports[u]}]]

ReuseEdgeSets(n) == {E \in EdgeSets(n) : Cardinality(E) <= MaxReuseEdges}

\* The first Build sees the paths 1..n, the second either the same paths
\* or paths of which only the lowest is one of the first Build's.
Shifts == IF second THEN {0, NReuse - 1} ELSE {0}

\* Build, lines 62-81, as BuildLoad, on the small import graphs.
BuildLoadReuse ==
    /\ pc = "start"
    /\ \E n \in 1..NReuse : \E E \in ReuseEdgeSets(n) : \E M \in SUBSET (1..n) :
          \E d \in Shifts : StartWalk(Renamed(MkGraph(n, E, M), d))
    /\ load' = [err |-> FALSE, errCount |-> 0, len |-> 1]
    /\ UNCHANGED <<cur, result, target, removed, again, before, second>>

\* Rebuild that empties the map first, as a Build that started from a new
\* map would.
RebuildFresh ==
    /\ pc = "done"
    /\ ~second
    /\ target = Nil
    /\ pc' = "start"
    /\ second' = TRUE
    /\ before' = Heap
    /\ result' = [node |-> Nil, err |-> FALSE]
    /\ cur' = Nil
    /\ nodes' = <<>>
    /\ UNCHANGED <<load, pkgs, PkgPath, Children, Parents, stack, target>>
    /\ UNCHANGED <<matchCalls, removed, again>>

\* The caller calls Build a second time on the same Builder: Build, lines
\* 62-69, starts on the map b.nodes as the first call left it (NewBuilder,
\* line 46, is the only place that makes the map).
Rebuild ==
    /\ pc = "done"
    /\ ~second
    /\ target = Nil
    /\ pc' = "start"
    /\ second' = TRUE
    /\ before' = Heap
    /\ result' = [node |-> Nil, err |-> FALSE]
    /\ cur' = Nil
    /\ UNCHANGED <<load, pkgs, nodes, PkgPath, Children, Parents, stack, target>>
    /\ UNCHANGED <<matchCalls, removed, again>>

NextReuse ==
    \/ BuildLoadFails
    \/ BuildLoadReuse
    \/ SkipImport
    \/ WalkImport
    \/ Return
    \/ FindRoot
    \/ Climb
    \/ Rebuild

SpecReuse == Init /\ [][NextReuse]_vars

\* ------------------------- import keys that differ from the PkgPath
\* The import graph g in which the PkgPath of each package of A is not the
\* key under which other packages import it (a vendored package, say): the
\* keys stay as they are and the PkgPath is one no key equals.
Vendored(g, A) ==
    [g EXCEPT !.path = [u \in 1..g.n |-> IF u \in A THEN g.n + u ELSE g.path[u]]]

\* No package or one package of n is vendored.
VendoredSets(n) == {A \in SUBSET (1..n) : Cardinality(A) <= 1}

\* Build, lines 62-81, as BuildLoad, on import graphs with a vendored
\* package.
BuildLoadVendored ==
    /\ pc = "start"
    /\ \E n \in 1..NUnits : \E E \in EdgeSets(n) : \E M \in SUBSET (1..n) :
          \E A \in VendoredSets(n) : StartWalk(Vendored(MkGraph(n, E, M), A))
    /\ load' = [err |-> FALSE, errCount |-> 0, len |-> 1]
    /\ UNCHANGED <<cur, result, target, removed, again, before, second>>

NextVendored ==
    \/ BuildLoadFails
    \/ BuildLoadVendored
    \/ SkipImport
    \/ WalkImport
    \/ Return
    \/ FindRoot
    \/ Climb

SpecVendored == Init /\ [][NextVendored]_vars

\* ------------------------------------------------------------ vocabulary
Allocated == DOMAIN PkgPath

InSeq(x, slc) == \E i \in DOMAIN slc : slc[i] = x

\* c is in p.Children exactly when p is in c.Parents, on the links C and P.
SymmetricOn(C, P) ==
    \A p \in DOMAIN C : \A c \in DOMAIN C : InSeq(c, C[p]) <=> InSeq(p, P[c])

Symmetric == SymmetricOn(Children, Parents)

RECURSIVE ReachSet(_, _, _)
\* The nodes reached from the set S along the links C without entering avoid.
ReachSet(C, S, avoid) ==
    LET N == S \cup {c \in (DOMAIN C) \ avoid : \E p \in S : InSeq(c, C[p])}
    IN  IF N = S THEN S ELSE ReachSet(C, N, avoid)

Reach(C, r) == ReachSet(C, {r}, {})

ReachAvoiding(C, r, t) == IF r = t THEN {} ELSE ReachSet(C, {r}, {t})

RECURSIVE UnitClosure(_, _, _)
\* The units reached from S along import entries whose target is in ok.
UnitClosure(g, S, ok) ==
    LET N == S \cup {v \in ok : \E u \in S : \E imp \in g.imports[u] : imp[2] = v}
    IN  IF N = S THEN S ELSE UnitClosure(g, N, ok)

AllUnits(g) == 1..g.n

Included(g) == {u \in AllUnits(g) : g.match[u]}

\* Units reachable from pkgs[0] along chains of accepted units.
IncludedReach(g) ==
    IF g.n = 0 \/ ~g.match[1] THEN {} ELSE UnitClosure(g, {1}, Included(g))

Importers(g, u) == {v \in AllUnits(g) : \E imp \in g.imports[v] : imp[2] = u}

\* No unit imports itself, directly or through other units.
Acyclic(g) ==
    \A u \in AllUnits(g) :
        u \notin UnitClosure(g, {imp[2] : imp \in g.imports[u]}, AllUnits(g))

LoadOk == ~load.err /\ load.errCount = 0 /\ load.len = 1

Returned == pc = "done" /\ ~result.err

\* The graph as Build left it: no removal has been applied yet.
Built == Returned /\ target = Nil

PathsOf(slc) == [i \in DOMAIN slc |-> PkgPath[slc[i]]]

\* -------------------------------------------------------------- claims

\* C1: during the walk, after every completed edge insertion, and in the
\* graph Build returns, c is in p.Children exactly when p is in c.Parents,
\* for all nodes p and c of the builder's map.
C1_SymmetryAfterBuild ==
    (pc \in {"walk", "climb"} \/ Built) => Symmetric

\* A returned graph in which some node has two parents.
C1_Witness ==
    /\ Built
    /\ \E c \in Allocated : Len(Parents[c]) >= 2

\* C2: in the graph Build returns there is exactly one Node per import path
\* (one map entry, one instance), and every accepted unit that has a node
\* has, among its node's Children, the node of each accepted unit it imports.
C2_Dedup ==
    Built =>
        /\ \A i \in Allocated : \A j \in Allocated :
               PkgPath[i] = PkgPath[j] => i = j
        /\ \A k \in DOMAIN nodes :
               nodes[k] \in Allocated /\ PkgPath[nodes[k]] = k
        /\ \A i \in Allocated : PkgPath[i] \in DOMAIN nodes
        /\ \A u \in Included(pkgs) :
               pkgs.path[u] \in DOMAIN nodes =>
                   \A imp \in pkgs.imports[u] :
                       pkgs.match[imp[2]] =>
                           /\ imp[1] \in DOMAIN nodes
                           /\ InSeq(nodes[imp[1]], Children[nodes[pkgs.path[u]]])

\* A returned graph in which a unit is imported by two different accepted
\* units that both were walked: the unit is reached along two paths.
C2_Witness ==
    /\ Built
    /\ \E u \in IncludedReach(pkgs) : \E v \in IncludedReach(pkgs) :
           \E w \in Included(pkgs) :
               /\ u # v /\ u # w /\ v # w
               /\ u \in Importers(pkgs, w)
               /\ v \in Importers(pkgs, w)
               /\ Len(Parents[nodes[pkgs.path[w]]]) = 2

\* C3: when Build has returned after a successful load, the import paths
\* that have a node are exactly the paths of the units reachable from the
\* start unit along chains of accepted units; no rejected unit has a node.
C3_PredicateExclusion ==
    (pc = "done" /\ LoadOk) =>
        /\ DOMAIN nodes = {pkgs.path[u] : u \in IncludedReach(pkgs)}
        /\ \A u \in AllUnits(pkgs) :
               ~pkgs.match[u] => pkgs.path[u] \notin DOMAIN nodes

\* A returned graph where a walked unit imports a rejected unit which
\* imports an accepted unit that got no node.
C3_Witness ==
    /\ Built
    /\ \E u \in IncludedReach(pkgs) : \E v \in AllUnits(pkgs) :
           \E w \in Included(pkgs) :
               /\ u \in Importers(pkgs, v)
               /\ ~pkgs.match[v]
               /\ v \in Importers(pkgs, w)
               /\ pkgs.path[w] \notin DOMAIN nodes

RECURSIVE Up(_, _)
\* The node at which climbing P[n][1] from n ends.
Up(P, n) == IF P[n] = <<>> THEN n ELSE Up(P, P[n][1])

\* C4: for an acyclic import graph whose start unit is accepted, Build
\* returns the node of the start unit's path; that node has no parents, no
\* other node is without parents, and climbing Parents[0] from any node,
\* whichever map entry the root search starts from, ends at it.
C4_RootUniqueness ==
    /\ (LoadOk /\ Acyclic(pkgs)) => pc # "overflow"
    /\ (pc = "climb" \/ Built) =>
           LET r == nodes[pkgs.path[1]] IN
           /\ Parents[r] = <<>>
           /\ \A n \in Allocated : Parents[n] = <<>> => n = r
           /\ \A n \in Allocated : Up(Parents, n) = r
    /\ Built =>
           /\ result.node = nodes[pkgs.path[1]]
           /\ PkgPath[result.node] = pkgs.path[1]

\* A returned graph over an acyclic input in which some node's first parent
\* is not the root, so that the climb from it takes more than one step.
C4_Witness ==
    /\ Built
    /\ Acyclic(pkgs)
    /\ \E n \in Allocated :
           /\ Parents[n] # <<>>
           /\ Parents[n][1] # result.node

\* C5: whenever Build returns, it returns nil and an error exactly if the
\* loader failed, or the error count was positive, or the number of
\* top-level units was not one, or the predicate rejected the start unit;
\* otherwise it returns a node and no error.  A node never comes with an
\* error.
C5_ErrorOutcomes ==
    (pc = "done") =>
        /\ result.err <=>
               (load.err \/ load.errCount > 0 \/ load.len # 1 \/ ~pkgs.match[1])
        /\ result.err => result.node = Nil
        /\ ~result.err => result.node \in Allocated

\* Build returned an error because the predicate rejected the start unit,
\* although it accepts a unit the start unit imports.
C5_Witness ==
    /\ pc = "done"
    /\ result.err
    /\ result.node = Nil
    /\ LoadOk
    /\ ~pkgs.match[1]
    /\ \E imp \in pkgs.imports[1] : pkgs.match[imp[2]]

\* C6: Build terminates on every finite import graph, import cycles among
\* accepted units included: the recursive walk never nests without end.
C6_CycleTolerance == pc # "overflow"

\* C7: for the input of TestBuilder_Build (a imports a/a and c; c imports d,
\* a/a and the rejected e) Build returns, for every iteration order of the
\* import maps, a.Children = [a/a, c], c.Children = [d, a/a],
\* a/a.Parents = [a, c], c.Parents = [a] and d.Parents = [c].
C7_DeterministicOrder ==
    (Built /\ pkgs = TestGraph) =>
        /\ PathsOf(Children[nodes[1]]) = <<2, 3>>
        /\ PathsOf(Children[nodes[3]]) = <<4, 2>>
        /\ PathsOf(Parents[nodes[2]]) = <<1, 3>>
        /\ PathsOf(Parents[nodes[3]]) = <<1>>
        /\ PathsOf(Parents[nodes[4]]) = <<3>>

\* A call removeNodeRecursively(result.node, target') is about to act on a
\* graph with symmetric links.
RemovalOnSymmetric == Returned /\ Symmetric

\* slc with the entries equal to x taken out, the rest in their order.
Minus(slc, x) == SelectSeq(slc, LAMBDA y : y # x)

\* C8: a removal of a target reachable from the root, on a graph with
\* symmetric links, leaves the target in no node's Children and with empty
\* Parents; each former parent keeps its other children in their order, and
\* the Children of every other node are unchanged.
C8_RemovalDetachesTarget ==
    [][(RemovalOnSymmetric /\ target' \in Reach(Children, result.node)) =>
           /\ \A n \in Allocated : ~InSeq(target', Children'[n])
           /\ Parents'[target'] = <<>>
           /\ \A n \in Allocated :
                  Children'[n] = IF InSeq(n, Parents[target'])
                                 THEN Minus(Children[n], target')
                                 ELSE Children[n]]_vars

\* The shape of Test_removeNodeRecursively after the removal of c: the root
\* keeps its two children b1 and b2, whose units both import the target,
\* and b1 and b2 have no children left.
C8_Witness ==
    /\ Returned
    /\ target # Nil
    /\ Parents[target] = <<>>
    /\ \E b1 \in Allocated : \E b2 \in Allocated :
           /\ b1 # b2
           /\ Children[result.node] = <<b1, b2>>
           /\ Children[b1] = <<>>
           /\ Children[b2] = <<>>
           /\ \A b \in {b1, b2} : \E u \in IncludedReach(pkgs) :
                  /\ pkgs.path[u] = PkgPath[b]
                  /\ \E imp \in pkgs.imports[u] : imp[1] = PkgPath[target]

\* C9: a removal of a target other than the root, on an acyclic graph with
\* symmetric links, leaves reachable from the root exactly the nodes that
\* were reachable along a path avoiding the target; a descendant of the
\* target that is still reachable keeps a parent and its Children, and a
\* descendant that is not ends without parents and is cascaded: like the
\* target, it is in no node's Parents any more.
C9_CascadingRemoval ==
    [][(/\ RemovalOnSymmetric
        /\ target' \in Reach(Children, result.node)
        /\ target' # result.node) =>
           LET keep == ReachAvoiding(Children, result.node, target')
               desc == Reach(Children, target') \ {target'}
           IN  /\ Reach(Children', result.node) = keep
               /\ \A d \in desc \cap keep :
                      Parents'[d] # <<>> /\ Children'[d] = Children[d]
               /\ \A d \in desc \ keep : Parents'[d] = <<>>
               /\ \A x \in (desc \ keep) \cup {target'} :
                      \A n \in Allocated : ~InSeq(x, Parents'[n])]_vars

\* After a removal: the target has a child that lost its last parent and a
\* child that is still linked to another parent.
C9_Witness ==
    /\ Returned
    /\ target # Nil
    /\ target # result.node
    /\ \E d1 \in Allocated : \E d2 \in Allocated :
           /\ InSeq(d1, Children[target])
           /\ InSeq(d2, Children[target])
           /\ Parents[d1] = <<>>
           /\ Parents[d2] # <<>>
           /\ d2 \in Reach(Children, result.node)

\* C10: if the links are symmetric before a removal, they are symmetric
\* after it, for all nodes, the detached target and the cascaded
\* descendants included.
C10_SymmetryAfterRemoval ==
    [][RemovalOnSymmetric => SymmetricOn(Children', Parents')]_vars

\* C11: a call of removeNodeRecursively on a target it has been called on
\* before changes no node's Children and no node's Parents, whatever other
\* removals were made since the earlier call.
C11_IdempotentRemoval ==
    [][(Returned /\ again') =>
           (Children' = Children /\ Parents' = Parents)]_vars

\* The last removal was a repeated one on a target that only the start unit
\* imports and that was therefore never cascaded; a node that target.Children
\* still holds was removed too, which can only have happened after the first
\* removal of the target, and the root was never removed.
C11_Witness ==
    /\ Returned
    /\ again
    /\ target # Nil
    /\ result.node \notin removed
    /\ \A u \in AllUnits(pkgs) :
           pkgs.path[u] = PkgPath[target] => Importers(pkgs, u) = {1}
    /\ \E c \in removed \ {target} : InSeq(c, Children[target])

\* No node occurs twice in slc.
NoDuplicates(slc) ==
    \A i \in DOMAIN slc : \A j \in DOMAIN slc : slc[i] = slc[j] => i = j

\* C12: in every state during and after Build, no node's Children holds the
\* same node twice and no node's Parents holds the same node twice, however
\* often the same import is met again along different paths.
C12_NoDuplicateEdges ==
    \A n \in Allocated : NoDuplicates(Children[n]) /\ NoDuplicates(Parents[n])

\* A returned graph in which a unit w with an accepted import x was walked
\* from two different importers, so that the import of x by w was met twice.
C12_Witness ==
    /\ Built
    /\ \E u \in IncludedReach(pkgs) : \E v \in IncludedReach(pkgs) :
           \E w \in Included(pkgs) : \E x \in Included(pkgs) :
               /\ u # v /\ u # w /\ v # w
               /\ u \in Importers(pkgs, w)
               /\ v \in Importers(pkgs, w)
               /\ w \in Importers(pkgs, x)
               /\ Children[nodes[pkgs.path[w]]] = <<nodes[pkgs.path[x]]>>
               /\ Len(Parents[nodes[pkgs.path[w]]]) = 2

\* C13: during one Build the predicate is called at most once on each
\* package, also on a package that several packages import and on a package
\* that is tested as an import and then walked into.  Stated for the
\* acyclic import graphs, on which the walk ends.
C13_PredicateOncePerUnit ==
    Acyclic(pkgs) => \A u \in DOMAIN matchCalls : matchCalls[u] <= 1

\* Package u imports an accepted package whose import path is k.
ImportsIncluded(g, u, k) ==
    \E imp \in g.imports[u] : g.match[imp[2]] /\ g.path[imp[2]] = k

\* C15: in the graph Build returns on a fresh Builder for an acyclic import
\* graph, for all nodes p and c, c is in p.Children exactly when a walked
\* package with p's import path imports an accepted package with c's import
\* path: no import of an included package is missing and there is no other
\* edge.
C15_EdgeSetExact ==
    (Built /\ ~second /\ Acyclic(pkgs)) =>
        \A p \in Allocated : \A c \in Allocated :
            InSeq(c, Children[p]) <=>
                \E u \in IncludedReach(pkgs) :
                    /\ pkgs.path[u] = PkgPath[p]
                    /\ ImportsIncluded(pkgs, u, PkgPath[c])

\* A returned graph over an acyclic input in which a walked package imports
\* an accepted and a rejected package and is not linked to every other
\* node.
C15_Witness ==
    /\ Built
    /\ ~second
    /\ Acyclic(pkgs)
    /\ \E u \in IncludedReach(pkgs) :
           /\ \E imp \in pkgs.imports[u] : ~pkgs.match[imp[2]]
           /\ \E c \in Allocated : \E d \in Allocated :
                  /\ d # nodes[pkgs.path[u]]
                  /\ InSeq(c, Children[nodes[pkgs.path[u]]])
                  /\ ~InSeq(d, Children[nodes[pkgs.path[u]]])

\* a is the beginning of b.
IsPrefix(a, b) == Len(a) <= Len(b) /\ SubSeq(b, 1, Len(a)) = a

\* Every map entry and every node of the heap B is in the builder as it
\* was in B, with at least the links it had in B, in their order.
Kept(B) ==
    /\ \A k \in DOMAIN B.nodes : k \in DOMAIN nodes /\ nodes[k] = B.nodes[k]
    /\ \A n \in DOMAIN B.PkgPath :
           /\ n \in Allocated
           /\ PkgPath[n] = B.PkgPath[n]
           /\ IsPrefix(B.Children[n], Children[n])
           /\ IsPrefix(B.Parents[n], Parents[n])

\* The walk of the import graph g has linked every walked package to the
\* node of each accepted import, in both directions.
Linked(g) ==
    \A u \in IncludedReach(g) : \A imp \in g.imports[u] :
        g.match[imp[2]] =>
            /\ g.path[u] \in DOMAIN nodes
            /\ imp[1] \in DOMAIN nodes
            /\ InSeq(nodes[imp[1]], Children[nodes[g.path[u]]])
            /\ InSeq(nodes[g.path[u]], Parents[nodes[imp[1]]])

\* C14: in a second Build on the same Builder the map entries and nodes of
\* the first Build are reused with the links they had; when the second
\* Build returns, the nodes of the paths of its import graph carry the
\* links of the second walk too; and the second Build returns the error
\* "could not find tree root node" only if the map is empty, so that with
\* a node left by the first Build it returns a node without parents even
\* when its predicate rejects the start package.
C14_ReuseAliasesNodes ==
    second =>
        /\ Kept(before)
        /\ (pc = "done" /\ LoadOk /\ pkgs.n > 0) =>
               /\ Linked(pkgs)
               /\ result.err <=> DOMAIN nodes = {}
               /\ ~result.err =>
                      result.node \in Allocated /\ Parents[result.node] = <<>>

\* The second Build has returned a node that the first Build made and whose
\* path is no path of the second import graph, and a node of a path of both
\* graphs has a parent from the first Build and a child from the second.
C14_Witness ==
    /\ second
    /\ pc = "done"
    /\ LoadOk
    /\ ~result.err
    /\ result.node \in DOMAIN before.PkgPath
    /\ \A u \in AllUnits(pkgs) : pkgs.path[u] # PkgPath[result.node]
    /\ \E n \in DOMAIN before.PkgPath :
           /\ \E u \in AllUnits(pkgs) : pkgs.path[u] = PkgPath[n]
           /\ before.Parents[n] # <<>>
           /\ before.Children[n] = <<>>
           /\ Children[n] # <<>>
           /\ \A c \in DOMAIN Children[n] :
                  Children[n][c] \notin DOMAIN before.PkgPath

\* The second Build's predicate rejected its start package, and the Build
\* returned a node of the first Build and no error.
C14_RejectedYetNode ==
    /\ second
    /\ pc = "done"
    /\ LoadOk
    /\ ~pkgs.match[1]
    /\ ~result.err
    /\ result.node \in DOMAIN before.PkgPath

\* C17: when Build returns an error (the loader failed, the error count was
\* positive, the number of top-level packages was not one, or the predicate
\* rejected the start package), the builder's map and every node's links
\* are exactly what they were when Build was called, on a new Builder and
\* on one that an earlier Build has filled.
C17_FailedBuildUntouched ==
    (pc = "done" /\ result.err) => Heap = before

\* The second Build on a Builder whose map the first Build has filled with
\* linked nodes returned an error.
C17_Witness ==
    /\ second
    /\ pc = "done"
    /\ result.err
    /\ ~LoadOk
    /\ \E n \in Allocated : Children[n] # <<>>
    /\ Heap = before

\* A first Build whose predicate rejected the start package, which imports
\* an accepted package, returned an error.
C17_RejectedStart ==
    /\ ~second
    /\ pc = "done"
    /\ result.err
    /\ LoadOk
    /\ \E imp \in pkgs.imports[1] : pkgs.match[imp[2]]
    /\ DOMAIN nodes = {}

\* C16: in the graph Build returns, for every entry key -> package of the
\* Imports of a walked package whose target is accepted, the node under the
\* key is the node under the target's PkgPath, so that the target's own
\* imports hang below the node its importer is linked to; hence the start
\* package's node is the only node without parents.  Also when the key is
\* not the target's PkgPath.
C16_KeyAndIdentifierSameNode ==
    Built =>
        /\ \A u \in IncludedReach(pkgs) : \A imp \in pkgs.imports[u] :
               pkgs.match[imp[2]] =>
                   /\ imp[1] \in DOMAIN nodes
                   /\ pkgs.path[imp[2]] \in DOMAIN nodes
                   /\ nodes[imp[1]] = nodes[pkgs.path[imp[2]]]
        /\ \A n \in Allocated : Parents[n] = <<>> => n = nodes[pkgs.path[1]]

====
